---------------------------- MODULE Spec2Model ----------------------------
(***************************************************************************)
(* kdtools: an implicit k-d tree laid out in place in a random-access      *)
(* range of K-tuples (inst/include/kdtools.h).                             *)
(*                                                                         *)
(* Iterators are 0-based offsets into the vector: the range [first, last)  *)
(* of a vector S of length n is [0, n), and *it is S[it + 1].  The         *)
(* template parameter I (the discriminating axis) is carried as an         *)
(* ordinary parameter in 0 .. K-1.                                         *)
(*                                                                         *)
(* A distance (a double, the square root of a sum of squares) is           *)
(* represented by its square, an exact integer: the square root is         *)
(* strictly increasing, so every comparison of two distances is kept, and  *)
(* a comparison of abs(a - b) with a distance squares its left side.       *)
(***************************************************************************)
EXTENDS Integers, Sequences, FiniteSets, TLC

VARIABLES
    before,      \* kd_sort_threaded: the vector as it was when the call was made
    seq,         \* the vector, rearranged in place by the sorts
    pc,          \* "unsorted" | "sorted" | "running" | "returned" | "error" | "terminated"
    qry,         \* the arguments of the last query call
    res,         \* what the last query call returned, emitted and dereferenced
    tasks,       \* kd_sort_threaded: the tasks created so far, each a call stack
    maxThreads   \* kd_sort_threaded: the max_threads argument

vars == <<before, seq, pc, qry, res, tasks, maxThreads>>

----------------------------------------------------------------------------
(* Bounds of the model *)

\* longest vector handed to the serial sort and the queries
MaxLen == 4
\* largest coordinate of a stored tuple (coordinates are 0 .. MaxVal)
MaxVal == 1
\* longest vector queried without the precondition that it is k-d-sorted
MaxLenAny == 3
\* longest vector handed to kd_sort_threaded
MaxLenT == 5
\* largest max_threads argument
MaxThreads == 3
\* largest eps argument of the approximate nearest-neighbour query
MaxEps == 1

\* tuple_size<TupleType>::value of the instantiation that is modelled
K == 2

Axes == 0 .. (K - 1)
Tuples == [1 .. K -> 0 .. MaxVal]
\* query arguments may lie outside the box of the stored tuples
QTuples == [1 .. K -> (0 - 1) .. (MaxVal + 1)]

\* what a read past the end of the vector may find there
Garbage == Tuples

get(I, x) == x[I + 1]

----------------------------------------------------------------------------
(* Layout helpers and comparators *)

midpos(first, last) == first + ((last - first) \div 2)

less_nth(I, lhs, rhs) == get(I, lhs) < get(I, rhs)

incr_wrap(I) == (I + 1) % K

is_last(N) == N = K - 1

RECURSIVE kd_less_(_, _, _, _)
kd_less_(I, N, lhs, rhs) ==
    IF is_last(N)
    THEN get(I, lhs) < get(I, rhs)
    ELSE IF get(I, lhs) = get(I, rhs)
         THEN kd_less_(incr_wrap(I), N + 1, lhs, rhs)
         ELSE get(I, lhs) < get(I, rhs)

kd_less_wrong_axis(I, lhs, rhs) == kd_less_(incr_wrap(I), 0, lhs, rhs)

kd_less(I, lhs, rhs) == kd_less_(I, 0, lhs, rhs)

RECURSIVE all_less_(_, _, _)
all_less_(I, lhs, rhs) ==
    IF is_last(I)
    THEN get(I, lhs) < get(I, rhs)
    ELSE get(I, lhs) < get(I, rhs) /\ all_less_(I + 1, lhs, rhs)

\* the comparison of the last axis alone
all_less_last_only(lhs, rhs) == get(K - 1, lhs) < get(K - 1, rhs)

all_less(lhs, rhs) == all_less_(0, lhs, rhs)

RECURSIVE none_less_(_, _, _)
none_less_(I, lhs, rhs) ==
    IF is_last(I)
    THEN get(I, lhs) >= get(I, rhs)
    ELSE get(I, lhs) >= get(I, rhs) /\ none_less_(I + 1, lhs, rhs)

none_less(lhs, rhs) == none_less_(0, lhs, rhs)

contains(value, lower, upper) == none_less(value, lower) /\ all_less(value, upper)

RECURSIVE sum_of_squares_(_, _, _)
sum_of_squares_(I, lhs, rhs) ==
    LET d == get(I, lhs) - get(I, rhs)
    IN  IF is_last(I) THEN d * d ELSE d * d + sum_of_squares_(I + 1, lhs, rhs)

sum_of_squares(lhs, rhs) == sum_of_squares_(0, lhs, rhs)

\* sqrt(sum_of_squares), represented by its square
l2dist(lhs, rhs) == sum_of_squares(lhs, rhs)

\* abs(get<I>(value) - get<I>(*pivot)), represented by its square
abs_diff(I, lhs, rhs) == (get(I, lhs) - get(I, rhs)) * (get(I, lhs) - get(I, rhs))

\* numeric_limits<double>::max(): above every distance the model can form
KeyMax == K * (MaxVal + 2) * (MaxVal + 2) + 1

----------------------------------------------------------------------------
(* std::nth_element and std::partition: every outcome the standard admits *)

\* the orders in which the elements of the sequence s can be arranged
Arrangements(s) ==
    { [i \in 1 .. Len(s) |-> s[p[i]]] : p \in Permutations(1 .. Len(s)) }

\* the vector S with the range that starts at first overwritten by s
Splice(S, first, s) ==
    [i \in 1 .. Len(S) |->
        IF i > first /\ i <= first + Len(s) THEN s[i - first] ELSE S[i]]

\* the elements of [first, last) of S, in order
Range(S, first, last) == SubSeq(S, first + 1, last)

\* s in ascending kd_less<I> order. kd_less<I> compares all K components, so
\* two tuples neither of which is less are the same tuple and the order of
\* the values is unique.
RECURSIVE SortedBy(_, _)
SortedBy(I, s) ==
    IF s = << >>
    THEN << >>
    ELSE LET m == CHOOSE i \in 1 .. Len(s) :
                      \A j \in 1 .. Len(s) : ~ kd_less(I, s[j], s[i])
         IN  <<s[m]>> \o SortedBy(I, SubSeq(s, 1, m - 1) \o SubSeq(s, m + 1, Len(s)))

\* nth_element(first, nth, last, kd_less<I>): the element at nth is the one a
\* full sort would put there, none before it is greater and none after it is
\* less; the order within the two sides is unspecified
nth_element(S, I, first, nth, last) ==
    LET srt == SortedBy(I, Range(S, first, last))
        k   == nth - first
    IN  { Splice(S, first, L \o <<srt[k + 1]>> \o R) :
              L \in Arrangements(SubSeq(srt, 1, k)),
              R \in Arrangements(SubSeq(srt, k + 2, Len(srt))) }

\* the iterator partition returns for [first, last): the first position whose
\* element fails the predicate kd_less<I>(_, pv)
partition_end(S, I, first, last, pv) ==
    first + Cardinality({ i \in first .. (last - 1) : kd_less(I, S[i + 1], pv) })

\* partition(first, last, bind(kd_less<I>(), _1, pv)): the elements that satisfy
\* the predicate come first; the order within the two groups is unspecified
partition(S, I, first, last, pv) ==
    LET Yes(x) == kd_less(I, x, pv)
        No(x)  == ~ kd_less(I, x, pv)
    IN  { Splice(S, first, A \o B) :
              A \in Arrangements(SelectSeq(Range(S, first, last), Yes)),
              B \in Arrangements(SelectSeq(Range(S, first, last), No)) }

----------------------------------------------------------------------------
(* kd_sort *)

\* one level of kd_sort and of kd_sort_threaded: nth_element at the midpoint,
\* then the partition of [first, pivot) by kd_less<I>(_, *pivot)
SplitOutcomes(S, I, first, last) ==
    LET pivot == midpos(first, last)
    IN  UNION { partition(T, I, first, pivot, T[pivot + 1]) :
                    T \in nth_element(S, I, first, pivot, last) }

\* the pivot after the partition step of a level
SplitPivot(T, I, first, last) ==
    LET pivot == midpos(first, last)
    IN  partition_end(T, I, first, pivot, T[pivot + 1])

RECURSIVE kd_sort(_, _, _, _)
kd_sort(S, I, first, last) ==
    IF last - first > 1
    THEN UNION { UNION { kd_sort(T2, incr_wrap(I), first, SplitPivot(T1, I, first, last)) :
                           T2 \in kd_sort(T1, incr_wrap(I),
                                          SplitPivot(T1, I, first, last) + 1, last) } :
                   T1 \in SplitOutcomes(S, I, first, last) }
    ELSE {S}

----------------------------------------------------------------------------
(* Queries.  Each operator returns, with the result of the call, the set rd   *)
(* of positions it dereferenced.  The vector owns the positions 0 .. Len(S)-1;*)
(* dereferencing any other position reads whatever lies there, the tuple g.   *)

At(S, g, it) == IF it >= 0 /\ it < Len(S) THEN S[it + 1] ELSE g

\* std::partition_point over [first, first + len) with the predicate
\* less_nth<I>(_, pv): the bisection of libstdc++, libc++ and the MSVC library
RECURSIVE partition_point(_, _, _, _, _, _)
partition_point(S, g, I, pv, first, len) ==
    IF len > 0
    THEN LET half   == len \div 2
             middle == first + half
             r      == IF less_nth(I, At(S, g, middle), pv)
                       THEN partition_point(S, g, I, pv, middle + 1, len - half - 1)
                       ELSE partition_point(S, g, I, pv, first, half)
         IN  [it |-> r.it, rd |-> r.rd \cup {middle}]
    ELSE [it |-> first, rd |-> {}]

find_pivot(S, g, I, first, last) ==
    LET pivot == midpos(first, last)
        r     == partition_point(S, g, I, At(S, g, pivot), first, pivot - first)
    IN  [it |-> r.it, rd |-> r.rd \cup {pivot}]

RECURSIVE kd_lower_bound(_, _, _, _, _, _)
kd_lower_bound(S, g, I, first, last, value) ==
    IF last - first > 1
    THEN LET fp    == find_pivot(S, g, I, first, last)
             pivot == fp.it
             J     == incr_wrap(I)
             rd0   == fp.rd \cup {pivot}
             lft   == kd_lower_bound(S, g, J, first, pivot, value)
             rgt   == kd_lower_bound(S, g, J, pivot + 1, last, value)
         IN  IF none_less(At(S, g, pivot), value)
             THEN [it |-> lft.it, rd |-> rd0 \cup lft.rd]
             ELSE IF all_less(At(S, g, pivot), value)
             THEN [it |-> rgt.it, rd |-> rd0 \cup rgt.rd]
             ELSE IF none_less(At(S, g, lft.it), value)
             THEN [it |-> lft.it, rd |-> rd0 \cup lft.rd \cup {lft.it}]
             ELSE [it |-> IF none_less(At(S, g, rgt.it), value) THEN rgt.it ELSE last,
                   rd |-> rd0 \cup lft.rd \cup {lft.it} \cup rgt.rd \cup {rgt.it}]
    ELSE [it |-> IF none_less(At(S, g, first), value) THEN first ELSE last,
          rd |-> {first}]

RECURSIVE kd_upper_bound(_, _, _, _, _, _)
kd_upper_bound(S, g, I, first, last, value) ==
    IF last - first > 1
    THEN LET fp    == find_pivot(S, g, I, first, last)
             pivot == fp.it
             J     == incr_wrap(I)
             rd0   == fp.rd \cup {pivot}
             lft   == kd_upper_bound(S, g, J, first, pivot, value)
             rgt   == kd_upper_bound(S, g, J, pivot + 1, last, value)
         IN  IF all_less(value, At(S, g, pivot))
             THEN [it |-> lft.it, rd |-> rd0 \cup lft.rd]
             ELSE IF none_less(value, At(S, g, pivot))
             THEN [it |-> rgt.it, rd |-> rd0 \cup rgt.rd]
             ELSE IF all_less(value, At(S, g, lft.it))
             THEN [it |-> lft.it, rd |-> rd0 \cup lft.rd \cup {lft.it}]
             ELSE [it |-> IF all_less(value, At(S, g, rgt.it)) THEN rgt.it ELSE last,
                   rd |-> rd0 \cup lft.rd \cup {lft.it} \cup rgt.rd \cup {rgt.it}]
    ELSE [it |-> IF all_less(value, At(S, g, first)) THEN first ELSE last,
          rd |-> {first}]

\* kdtools::kd_binary_search
kd_binary_search(S, g, first, last, value) ==
    LET lb == kd_lower_bound(S, g, 0, first, last, value)
    IN  IF lb.it # last
        THEN [found |-> none_less(value, At(S, g, lb.it)), rd |-> lb.rd \cup {lb.it}]
        ELSE [found |-> FALSE, rd |-> lb.rd]

\* kdtools::kd_equal_range
kd_equal_range(S, g, first, last, value) ==
    LET lb == kd_lower_bound(S, g, 0, first, last, value)
        ub == kd_upper_bound(S, g, 0, first, last, value)
    IN  [it |-> lb.it, it2 |-> ub.it, rd |-> lb.rd \cup ub.rd]

RECURSIVE kd_nearest_neighbor(_, _, _, _, _, _)
kd_nearest_neighbor(S, g, I, first, last, value) ==
    IF last - first > 1
    THEN LET fp          == find_pivot(S, g, I, first, last)
             pivot       == fp.it
             J           == incr_wrap(I)
             search_left == less_nth(I, value, At(S, g, pivot))
             s1          == IF search_left
                            THEN kd_nearest_neighbor(S, g, J, first, pivot, value)
                            ELSE kd_nearest_neighbor(S, g, J, pivot + 1, last, value)
             pdist       == l2dist(At(S, g, pivot), value)
             sdist       == l2dist(At(S, g, s1.it), value)
             keep        == s1.it # last /\ sdist < pdist
             search      == IF keep THEN s1.it ELSE pivot
             min_dist    == IF keep THEN sdist ELSE pdist
             rd1         == fp.rd \cup {pivot} \cup s1.rd
                               \cup (IF s1.it # last THEN {s1.it} ELSE {})
             s2          == IF search_left
                            THEN kd_nearest_neighbor(S, g, J, pivot + 1, last, value)
                            ELSE kd_nearest_neighbor(S, g, J, first, pivot, value)
         IN  IF abs_diff(I, value, At(S, g, pivot)) < min_dist
             THEN [it |-> IF s2.it # last /\ l2dist(At(S, g, s2.it), value) < min_dist
                          THEN s2.it ELSE search,
                   rd |-> rd1 \cup s2.rd \cup (IF s2.it # last THEN {s2.it} ELSE {})]
             ELSE [it |-> search, rd |-> rd1]
    ELSE [it |-> first, rd |-> {}]

abs(x) == IF x < 0 THEN 0 - x ELSE x

\* the overload with eps, after its pivot fp, the search s1 of the side of
\* value and the search s2 of the other side.  A distance d, held as its
\* square, is below eps exactly when d*d < eps*eps, and abs(a - b) < d - eps
\* exactly when (abs(a - b) + eps)^2 < d*d.
nearest_neighbor_eps_(S, g, I, last, value, eps, fp, s1, s2) ==
    LET pivot    == fp.it
        pdist    == l2dist(At(S, g, pivot), value)
        sdist    == l2dist(At(S, g, s1.it), value)
        keep     == s1.it # last /\ sdist < pdist
        search   == IF keep THEN s1.it ELSE pivot
        min_dist == IF keep THEN sdist ELSE pdist
        rd1      == fp.rd \cup {pivot} \cup s1.rd
                       \cup (IF s1.it # last THEN {s1.it} ELSE {})
        gap      == abs(get(I, value) - get(I, At(S, g, pivot))) + eps
    IN  IF pdist < eps * eps
        THEN [it |-> pivot, rd |-> fp.rd \cup {pivot}]
        ELSE IF s1.it # last /\ sdist < eps * eps
        THEN [it |-> s1.it, rd |-> rd1]
        ELSE IF gap * gap < min_dist
        THEN [it |-> IF s2.it # last /\ l2dist(At(S, g, s2.it), value) < min_dist
                     THEN s2.it ELSE search,
              rd |-> rd1 \cup s2.rd \cup (IF s2.it # last THEN {s2.it} ELSE {})]
        ELSE [it |-> search, rd |-> rd1]

\* the overload with eps: its recursive calls are to the exact overload
kd_nearest_neighbor_eps(S, g, I, first, last, value, eps) ==
    IF last - first > 1
    THEN LET fp    == find_pivot(S, g, I, first, last)
             J     == incr_wrap(I)
             lft   == kd_nearest_neighbor(S, g, J, first, fp.it, value)
             rgt   == kd_nearest_neighbor(S, g, J, fp.it + 1, last, value)
         IN  IF less_nth(I, value, At(S, g, fp.it))
             THEN nearest_neighbor_eps_(S, g, I, last, value, eps, fp, lft, rgt)
             ELSE nearest_neighbor_eps_(S, g, I, last, value, eps, fp, rgt, lft)
    ELSE [it |-> first, rd |-> {}]

\* kd_range_query threads the output iterator through the calls: st.out is the
\* sequence of positions whose elements were written to it so far
RECURSIVE kd_range_query(_, _, _, _, _, _, _, _)
kd_range_query(S, g, I, first, last, lower, upper, st) ==
    IF last - first = 1
    THEN [out |-> IF contains(At(S, g, first), lower, upper)
                  THEN Append(st.out, first) ELSE st.out,
          rd  |-> st.rd \cup {first}]
    ELSE IF last - first = 0
    THEN st
    ELSE LET fp    == find_pivot(S, g, I, first, last)
             pivot == fp.it
             J     == incr_wrap(I)
             st1   == [out |-> IF contains(At(S, g, pivot), lower, upper)
                               THEN Append(st.out, pivot) ELSE st.out,
                       rd  |-> st.rd \cup fp.rd \cup {pivot}]
             st2   == IF ~ less_nth(I, At(S, g, pivot), lower)
                      THEN kd_range_query(S, g, J, first, pivot, lower, upper, st1)
                      ELSE st1
         IN  IF less_nth(I, At(S, g, pivot), upper)
             THEN kd_range_query(S, g, J, pivot + 1, last, lower, upper, st2)
             ELSE st2

----------------------------------------------------------------------------
(* n_best: the bounded queue of kd_nearest_neighbors.  The priority_queue   *)
(* is held as the set of its (key, position) pairs; a position enters at    *)
(* most once.  Its top is an entry of largest key: which one, among equal   *)
(* keys, is left to the heap, so pop has one outcome per such entry.        *)

Keys(q) == { e[1] : e \in q }

TopKey(q) == CHOOSE k \in Keys(q) : \A k2 \in Keys(q) : k2 <= k

\* n_best::max_key
max_key(q) == IF q = {} THEN KeyMax ELSE TopKey(q)

\* n_best::add: the queues that emplace and the conditional pop can leave
add(q, n, dist, it) ==
    LET q1 == q \cup {<<dist, it>>}
    IN  IF Cardinality(q1) > n
        THEN { q1 \ {e} : e \in { x \in q1 : x[1] = TopKey(q1) } }
        ELSE {q1}

\* knn amends one state st = [q, rd, log] into a set of states, one per outcome
\* of the pops.  log collects, for each evaluation of the pruning test, the
\* size of the queue and the key max_key reported there.
RECURSIVE knn(_, _, _, _, _, _, _, _)
knn(S, g, I, first, last, value, n, st) ==
    IF last - first = 1
    THEN { [st EXCEPT !.q = q2, !.rd = @ \cup {first}] :
               q2 \in add(st.q, n, l2dist(At(S, g, first), value), first) }
    ELSE IF last - first = 0
    THEN {st}
    ELSE LET fp          == find_pivot(S, g, I, first, last)
             pivot       == fp.it
             J           == incr_wrap(I)
             search_left == less_nth(I, value, At(S, g, pivot))
             added       == { [st EXCEPT !.q = q2, !.rd = @ \cup fp.rd \cup {pivot}] :
                                q2 \in add(st.q, n, l2dist(At(S, g, pivot), value), pivot) }
             near(a)     == IF search_left
                            THEN knn(S, g, J, first, pivot, value, n, a)
                            ELSE knn(S, g, J, pivot + 1, last, value, n, a)
             far(b)      == IF search_left
                            THEN knn(S, g, J, pivot + 1, last, value, n, b)
                            ELSE knn(S, g, J, first, pivot, value, n, b)
             tested(b)   == [b EXCEPT !.log = @ \cup
                                {[size |-> Cardinality(b.q), key |-> max_key(b.q)]}]
         IN  UNION { UNION { IF abs_diff(I, value, At(S, g, pivot)) <= max_key(b.q)
                             THEN far(tested(b))
                             ELSE {tested(b)} :
                             b \in near(a) } :
                     a \in added }

\* kdtools::kd_nearest_neighbors: the queue after knn, which copy then empties
\* into the output iterator one element per entry
kd_nearest_neighbors(S, g, first, last, value, n) ==
    knn(S, g, 0, first, last, value, n, [q |-> {}, rd |-> {}, log |-> {}])

----------------------------------------------------------------------------
NoQuery == [op |-> "none"]
NoResult == [op |-> "none"]

Inputs == UNION { [1 .. n -> Tuples] : n \in 0 .. MaxLen }

Init ==
    /\ seq \in Inputs
    /\ before = << >>
    /\ pc = "unsorted"
    /\ qry = NoQuery
    /\ res = NoResult
    /\ tasks = << >>
    /\ maxThreads = 0

\* kdtools::kd_sort(first, last)
KdSort ==
    /\ pc \in {"unsorted", "sorted"}
    /\ \E T \in kd_sort(seq, 0, 0, Len(seq)) : seq' = T
    /\ pc' = "sorted"
    /\ qry' = NoQuery
    /\ res' = NoResult
    /\ UNCHANGED <<before, tasks, maxThreads>>

\* kdtools::kd_lower_bound(first, last, value)
LowerBound ==
    /\ pc \in {"unsorted", "sorted"}
    /\ \E value \in QTuples, g \in Garbage :
         LET r == kd_lower_bound(seq, g, 0, 0, Len(seq), value)
         IN  /\ qry' = [op |-> "kd_lower_bound", value |-> value]
             /\ res' = [op |-> "kd_lower_bound", it |-> r.it, rd |-> r.rd]
    /\ UNCHANGED <<before, seq, pc, tasks, maxThreads>>

\* kdtools::kd_upper_bound(first, last, value)
UpperBound ==
    /\ pc \in {"unsorted", "sorted"}
    /\ \E value \in QTuples, g \in Garbage :
         LET r == kd_upper_bound(seq, g, 0, 0, Len(seq), value)
         IN  /\ qry' = [op |-> "kd_upper_bound", value |-> value]
             /\ res' = [op |-> "kd_upper_bound", it |-> r.it, rd |-> r.rd]
    /\ UNCHANGED <<before, seq, pc, tasks, maxThreads>>

\* kdtools::kd_binary_search(first, last, value)
BinarySearch ==
    /\ pc \in {"unsorted", "sorted"}
    /\ \E value \in QTuples, g \in Garbage :
         LET r == kd_binary_search(seq, g, 0, Len(seq), value)
         IN  /\ qry' = [op |-> "kd_binary_search", value |-> value]
             /\ res' = [op |-> "kd_binary_search", found |-> r.found, rd |-> r.rd]
    /\ UNCHANGED <<before, seq, pc, tasks, maxThreads>>

\* kdtools::kd_equal_range(first, last, value)
EqualRange ==
    /\ pc \in {"unsorted", "sorted"}
    /\ \E value \in QTuples, g \in Garbage :
         LET r == kd_equal_range(seq, g, 0, Len(seq), value)
         IN  /\ qry' = [op |-> "kd_equal_range", value |-> value]
             /\ res' = [op |-> "kd_equal_range", it |-> r.it, it2 |-> r.it2, rd |-> r.rd]
    /\ UNCHANGED <<before, seq, pc, tasks, maxThreads>>

\* kdtools::kd_nearest_neighbor(first, last, value)
NearestNeighbor ==
    /\ pc \in {"unsorted", "sorted"}
    /\ \E value \in QTuples, g \in Garbage :
         LET r == kd_nearest_neighbor(seq, g, 0, 0, Len(seq), value)
         IN  /\ qry' = [op |-> "kd_nearest_neighbor", value |-> value]
             /\ res' = [op |-> "kd_nearest_neighbor", it |-> r.it, rd |-> r.rd]
    /\ UNCHANGED <<before, seq, pc, tasks, maxThreads>>

\* kdtools::kd_nearest_neighbor(first, last, value, eps)
NearestNeighborEps ==
    /\ pc \in {"unsorted", "sorted"}
    /\ \E value \in QTuples, g \in Garbage, eps \in 0 .. MaxEps :
         LET r == kd_nearest_neighbor_eps(seq, g, 0, 0, Len(seq), value, eps)
         IN  /\ qry' = [op |-> "kd_nearest_neighbor_eps", value |-> value, eps |-> eps]
             /\ res' = [op |-> "kd_nearest_neighbor_eps", it |-> r.it, rd |-> r.rd]
    /\ UNCHANGED <<before, seq, pc, tasks, maxThreads>>

\* kdtools::kd_nearest_neighbors(first, last, value, n, outp)
NearestNeighbors ==
    /\ pc \in {"unsorted", "sorted"}
    /\ \E value \in QTuples, g \in Garbage, n \in 1 .. (MaxLen + 1) :
         \E r \in kd_nearest_neighbors(seq, g, 0, Len(seq), value, n) :
             /\ qry' = [op |-> "kd_nearest_neighbors", value |-> value, n |-> n]
             /\ res' = [op |-> "kd_nearest_neighbors",
                        out |-> { e[2] : e \in r.q }, rd |-> r.rd, log |-> r.log]
    /\ UNCHANGED <<before, seq, pc, tasks, maxThreads>>

\* kdtools::kd_range_query(first, last, lower, upper, outp)
RangeQuery ==
    /\ pc \in {"unsorted", "sorted"}
    /\ \E lower \in QTuples, upper \in QTuples, g \in Garbage :
         LET r == kd_range_query(seq, g, 0, 0, Len(seq), lower, upper,
                                 [out |-> << >>, rd |-> {}])
         IN  /\ qry' = [op |-> "kd_range_query", lower |-> lower, upper |-> upper]
             /\ res' = [op |-> "kd_range_query", out |-> r.out, rd |-> r.rd]
    /\ UNCHANGED <<before, seq, pc, tasks, maxThreads>>

\* the caller keeps the documented precondition: the range is k-d-sorted
Sorted == pc = "sorted"

\* no query has been made yet.  Queries only read the vector, so a behaviour
\* that builds a vector, sorts it or not, and makes one query reaches every
\* result a longer one does.
Fresh == res = NoResult

NextSort == Fresh /\ KdSort
SpecSort == Init /\ [][NextSort]_vars

NextRange == (Fresh /\ KdSort) \/ (Sorted /\ Fresh /\ RangeQuery)
SpecRange == Init /\ [][NextRange]_vars

NextNN == (Fresh /\ KdSort) \/ (Sorted /\ Fresh /\ NearestNeighbor)
SpecNN == Init /\ [][NextNN]_vars

NextKnn == (Fresh /\ KdSort) \/ (Sorted /\ Fresh /\ NearestNeighbors)
SpecKnn == Init /\ [][NextKnn]_vars

NextLower == (Fresh /\ KdSort) \/ (Sorted /\ Fresh /\ LowerBound)
SpecLower == Init /\ [][NextLower]_vars

\* any range, sorted or not
InitAny ==
    /\ seq \in UNION { [1 .. n -> Tuples] : n \in 0 .. MaxLenAny }
    /\ before = << >>
    /\ pc = "unsorted"
    /\ qry = NoQuery
    /\ res = NoResult
    /\ tasks = << >>
    /\ maxThreads = 0

NextAny ==
    \/ (Fresh /\ KdSort)
    \/ (Fresh /\ LowerBound)
    \/ (Fresh /\ UpperBound)
    \/ (Fresh /\ BinarySearch)
    \/ (Fresh /\ EqualRange)
    \/ (Fresh /\ NearestNeighbor)
    \/ (Fresh /\ NearestNeighborEps)
    \/ (Fresh /\ NearestNeighbors)
    \/ (Fresh /\ RangeQuery)
SpecAny == InitAny /\ [][NextAny]_vars

----------------------------------------------------------------------------
(* kd_sort_threaded.  A task is a thread of execution with its stack of     *)
(* kd_sort_threaded frames; task 1 is the caller's.  A frame is at "entry"  *)
(* (nothing done yet), at "gate" (nth_element and partition done, pivot     *)
(* set) or at "join" (thread t started, the call for [first, pivot) made).  *)

Frame(first, last, I, depth) ==
    [first |-> first, last |-> last, I |-> I, depth |-> depth,
     pc |-> "entry", pivot |-> first, child |-> 0]

\* 1 << thread_depth
Shl1(depth) == 2 ^ depth

\* (1 << thread_depth) < max_threads
SpawnGateInclusive(depth, max_threads) == Shl1(depth) <= max_threads

SpawnGate(depth, max_threads) == Shl1(depth) < max_threads

\* the arguments thread t is started with
ThreadFrameSameAxis(f) == Frame(f.pivot + 1, f.last, f.I, f.depth + 1)

ThreadFrame(f) == Frame(f.pivot + 1, f.last, incr_wrap(f.I), f.depth + 1)

\* the arguments of the call the spawning task makes itself
CallFrame(f) == Frame(f.first, f.pivot, incr_wrap(f.I), f.depth + 1)

Running(t) == tasks[t].st = "running"
Top(t) == tasks[t].stack[Len(tasks[t].stack)]

\* the tasks after task t returns from its top frame; a task whose last frame
\* returns has finished
Returned(t) ==
    LET stack == SubSeq(tasks[t].stack, 1, Len(tasks[t].stack) - 1)
    IN  [tasks EXCEPT ![t] = [stack |-> stack,
                              st |-> IF stack = << >> THEN "done" ELSE "running"]]

\* the call is over when the caller's task has returned from its first frame
AfterReturn(t) ==
    IF t = 1 /\ Len(tasks[t].stack) = 1 THEN "returned" ELSE "running"

\* vectors whose tuples are pairwise distinct on every axis
InputsDistinct ==
    UNION { { [i \in 1 .. n |-> <<i - 1, b[i] - 1>>] : b \in Permutations(1 .. n) } :
              n \in 0 .. MaxLenT }

\* vectors with ties on single axes and with duplicated tuples
InputsTied ==
    UNION { [1 .. n -> {<<0, 0>>, <<0, 1>>, <<1, 1>>}] : n \in 0 .. MaxLenT }

\* kdtools::kd_sort_threaded has just been called on the whole vector
InitT ==
    /\ seq \in InputsDistinct \cup InputsTied
    /\ before = seq
    /\ maxThreads \in 0 .. MaxThreads
    /\ tasks = << [stack |-> << Frame(0, Len(seq), 0, 0) >>, st |-> "running"] >>
    /\ pc = "running"
    /\ qry = NoQuery
    /\ res = NoResult

\* distance(first, last) <= 1: nothing to do
TReturn ==
  \E t \in DOMAIN tasks :
    /\ pc = "running" /\ Running(t)
    /\ Top(t).pc = "entry"
    /\ Top(t).last - Top(t).first <= 1
    /\ tasks' = Returned(t)
    /\ pc' = AfterReturn(t)
    /\ UNCHANGED <<before, seq, qry, res, maxThreads>>

\* nth_element and partition of the frame's range
TPartition ==
  \E t \in DOMAIN tasks :
    /\ pc = "running" /\ Running(t)
    /\ Top(t).pc = "entry"
    /\ Top(t).last - Top(t).first > 1
    /\ \E T \in SplitOutcomes(seq, Top(t).I, Top(t).first, Top(t).last) :
         /\ seq' = T
         /\ tasks' = [tasks EXCEPT ![t].stack[Len(tasks[t].stack)] =
                [@ EXCEPT !.pc = "gate",
                          !.pivot = SplitPivot(T, Top(t).I, Top(t).first, Top(t).last)]]
    /\ UNCHANGED <<before, pc, qry, res, maxThreads>>

\* thread t(...) starts, then the task calls kd_sort_threaded for [first, pivot)
TSpawn ==
  \E t \in DOMAIN tasks :
    /\ pc = "running" /\ Running(t)
    /\ Top(t).pc = "gate"
    /\ SpawnGate(Top(t).depth, maxThreads)
    /\ tasks' = Append(
         [tasks EXCEPT ![t].stack =
              Append([@ EXCEPT ![Len(@)] =
                          [@ EXCEPT !.pc = "join", !.child = Len(tasks) + 1]],
                     CallFrame(Top(t)))],
         [stack |-> << ThreadFrame(Top(t)) >>, st |-> "running"])
    /\ UNCHANGED <<before, seq, pc, qry, res, maxThreads>>

\* the constructor of thread t throws std::system_error: no task can be
\* created.  Nothing catches it.  It leaves kd_sort_threaded towards the
\* caller only from the first frame of the caller's task; from a deeper frame
\* the unwinding destroys the joinable thread of the enclosing frame, and in a
\* spawned task it leaves the thread function: both call std::terminate.
TSpawnFails ==
  \E t \in DOMAIN tasks :
    /\ pc = "running" /\ Running(t)
    /\ Top(t).pc = "gate"
    /\ SpawnGate(Top(t).depth, maxThreads)
    /\ pc' = IF t = 1 /\ Len(tasks[t].stack) = 1 THEN "error" ELSE "terminated"
    /\ UNCHANGED <<before, seq, tasks, qry, res, maxThreads>>

\* the else branch: kd_sort of (pivot, last), then of [first, pivot), and return
TSerial ==
  \E t \in DOMAIN tasks :
    /\ pc = "running" /\ Running(t)
    /\ Top(t).pc = "gate"
    /\ ~ SpawnGate(Top(t).depth, maxThreads)
    /\ \E T1 \in kd_sort(seq, incr_wrap(Top(t).I), Top(t).pivot + 1, Top(t).last) :
         \E T2 \in kd_sort(T1, incr_wrap(Top(t).I), Top(t).first, Top(t).pivot) :
             seq' = T2
    /\ tasks' = Returned(t)
    /\ pc' = AfterReturn(t)
    /\ UNCHANGED <<before, qry, res, maxThreads>>

\* t.join() returns once the thread has finished, and the frame returns
TJoin ==
  \E t \in DOMAIN tasks :
    /\ pc = "running" /\ Running(t)
    /\ Top(t).pc = "join"
    /\ tasks[Top(t).child].st = "done"
    /\ tasks' = [Returned(t) EXCEPT ![Top(t).child].st = "joined"]
    /\ pc' = AfterReturn(t)
    /\ UNCHANGED <<before, seq, qry, res, maxThreads>>

NextT == TReturn \/ TPartition \/ TSpawn \/ TSpawnFails \/ TSerial \/ TJoin

SpecT == InitT /\ [][NextT]_vars

\* the caller's task and every spawned task that has not been joined
LiveTasks == { t \in DOMAIN tasks : tasks[t].st # "joined" }

----------------------------------------------------------------------------
(* Properties of the serial sort and of the queries *)

Positions == 0 .. (Len(seq) - 1)

\* lhs >= rhs on every axis
GeqAll(lhs, rhs) == \A i \in 1 .. K : lhs[i] >= rhs[i]

\* lo <= x < hi on every axis
InBox(x, lo, hi) == \A i \in 1 .. K : lo[i] <= x[i] /\ x[i] < hi[i]

\* the squared Euclidean distance
Dist(x, y) == LET d(i) == (x[i] - y[i]) * (x[i] - y[i])
                  sum[i \in 0 .. K] == IF i = 0 THEN 0 ELSE sum[i - 1] + d(i)
              IN  sum[K]

\* a is before b in the lexicographic order that visits the axes I, I+1, ..
\* cyclically
CyclicLexLess(I, a, b) ==
    \E k \in 0 .. (K - 1) :
        /\ \A m \in 0 .. (k - 1) : a[((I + m) % K) + 1] = b[((I + m) % K) + 1]
        /\ a[((I + k) % K) + 1] < b[((I + k) % K) + 1]

\* C1: on a k-d-sorted vector and a box with lo <= hi, kd_range_query emits
\* the positions whose tuple lies in the box [lo, hi), each exactly once, and
\* no other position.
C1_RangeQueryExact ==
    (pc = "sorted" /\ res.op = "kd_range_query" /\ GeqAll(qry.upper, qry.lower))
    => /\ \A i \in 1 .. Len(res.out) : res.out[i] \in Positions
       /\ \A p \in Positions :
              Cardinality({ i \in 1 .. Len(res.out) : res.out[i] = p })
                  = IF InBox(seq[p + 1], qry.lower, qry.upper) THEN 1 ELSE 0

\* C2: on a non-empty k-d-sorted vector kd_nearest_neighbor returns a position
\* of the vector whose distance to the query is the least distance of any
\* element.
C2_NearestIsMinimal ==
    (pc = "sorted" /\ res.op = "kd_nearest_neighbor" /\ Len(seq) > 0)
    => /\ res.it \in Positions
       /\ \A p \in Positions :
              Dist(seq[res.it + 1], qry.value) <= Dist(seq[p + 1], qry.value)

\* how many of the n smallest distances from v to the elements equal d
AmongSmallest(d, n, v) ==
    LET below == Cardinality({ p \in Positions : Dist(seq[p + 1], v) < d })
        equal == Cardinality({ p \in Positions : Dist(seq[p + 1], v) = d })
        room  == IF n > below THEN n - below ELSE 0
    IN  IF equal < room THEN equal ELSE room

\* C3: on a k-d-sorted vector and 1 <= n <= |S|, kd_nearest_neighbors emits n
\* elements whose distances to the query are, as a multiset, the n smallest
\* distances from the query to the elements.
C3_KnnSmallestDistances ==
    (pc = "sorted" /\ res.op = "kd_nearest_neighbors" /\ qry.n <= Len(seq))
    => /\ res.out \subseteq Positions
       /\ Cardinality(res.out) = qry.n
       /\ \A d \in 0 .. KeyMax :
              Cardinality({ p \in res.out : Dist(seq[p + 1], qry.value) = d })
                  = AmongSmallest(d, qry.n, qry.value)

\* C4: on a k-d-sorted vector kd_lower_bound returns last or a position whose
\* tuple is >= the value on every axis, and no earlier position holds such a
\* tuple.
C4_LowerBoundLeftmost ==
    (pc = "sorted" /\ res.op = "kd_lower_bound")
    => /\ \/ res.it = Len(seq)
          \/ res.it \in Positions /\ GeqAll(seq[res.it + 1], qry.value)
       /\ \A q \in Positions : q < res.it => ~ GeqAll(seq[q + 1], qry.value)

\* a lower bound was found behind the pivot of the whole range of a sorted
\* vector of the greatest length in which two tuples tie on axis 0
C4_Witness ==
    /\ pc = "sorted" /\ res.op = "kd_lower_bound"
    /\ Len(seq) = MaxLen
    /\ res.it \in Positions
    /\ res.it > midpos(0, Len(seq))
    /\ \E i, j \in 1 .. Len(seq) : i # j /\ seq[i][1] = seq[j][1]

\* the k-d order of the data model at axis I over [first, last), with the
\* pivot at midpos
RECURSIVE KdOrder(_, _, _, _)
KdOrder(S, I, first, last) ==
    \/ last - first <= 1
    \/ LET p == midpos(first, last)
       IN  /\ \A x \in first .. (p - 1) :
                  \/ S[x + 1][I + 1] < S[p + 1][I + 1]
                  \/ /\ S[x + 1][I + 1] = S[p + 1][I + 1]
                     /\ CyclicLexLess(I, S[x + 1], S[p + 1])
           /\ \A y \in (p + 1) .. (last - 1) : S[p + 1][I + 1] <= S[y + 1][I + 1]
           /\ KdOrder(S, (I + 1) % K, first, p)
           /\ KdOrder(S, (I + 1) % K, p + 1, last)

PairwiseDistinct(S) == \A i, j \in 1 .. Len(S) : i # j => S[i] # S[j]

\* C5 as stated: after kd_sort the k-d order holds with the pivot at midpos,
\* for every vector, duplicated tuples included.
C5_KdOrderAnyInput ==
    pc = "sorted" => KdOrder(seq, 0, 0, Len(seq))

\* C5 amended: after kd_sort of a vector whose tuples are pairwise distinct
\* (ties on single axes allowed) the k-d order holds with the pivot at midpos
\* at every level.
C5_KdOrderDistinct ==
    (pc = "sorted" /\ PairwiseDistinct(seq)) => KdOrder(seq, 0, 0, Len(seq))

\* a sorted vector of the greatest length with distinct tuples, two of which
\* tie with the pivot on axis 0
C5_Witness ==
    /\ pc = "sorted"
    /\ Len(seq) = MaxLen
    /\ MaxLen > 2
    /\ PairwiseDistinct(seq)
    /\ \E i \in 1 .. Len(seq) :
           i # midpos(0, Len(seq)) + 1 /\ seq[i][1] = seq[midpos(0, Len(seq)) + 1][1]

\* C7: no query dereferences a position outside [first, last), and on an
\* empty range a positional query returns last and a sink receives nothing.
C7_NoReadOutsideRange ==
    res.op # "none"
    => /\ res.rd \subseteq Positions
       /\ (Len(seq) = 0 /\ res.op \in {"kd_lower_bound", "kd_upper_bound",
               "kd_nearest_neighbor", "kd_nearest_neighbor_eps"}) => res.it = 0
       /\ (Len(seq) = 0 /\ res.op = "kd_equal_range") => (res.it = 0 /\ res.it2 = 0)
       /\ (Len(seq) = 0 /\ res.op = "kd_nearest_neighbors") => res.out = {}
       /\ (Len(seq) = 0 /\ res.op = "kd_range_query") => res.out = << >>

\* C10: at every evaluation of the pruning test of knn with fewer than n
\* entries in the queue, max_key reported the largest representable key.
C10_MaxKeyInfiniteUntilFull ==
    res.op = "kd_nearest_neighbors"
    => \A e \in res.log : e.size < qry.n => e.key = KeyMax

----------------------------------------------------------------------------
(* Properties of kd_sort_threaded *)

DistinctOnEveryAxis(S) ==
    \A i, j \in 1 .. Len(S) : i # j => \A a \in 1 .. K : S[i][a] # S[j][a]

\* C6: when kd_sort_threaded returns on a vector whose tuples are pairwise
\* distinct on every axis, the vector is, position by position, the vector
\* any run of the serial kd_sort leaves on the same input.
C6_ThreadedEqualsSerial ==
    (pc = "returned" /\ DistinctOnEveryAxis(before))
    => \A T \in kd_sort(before, 0, 0, Len(before)) : seq = T

\* a call has returned after four tasks worked on a vector of the greatest
\* length with tuples distinct on every axis
C6_Witness ==
    /\ pc = "returned"
    /\ DistinctOnEveryAxis(before)
    /\ Len(before) = MaxLenT
    /\ Len(tasks) >= 4
    /\ seq # before

\* C8: a failure to create a task never terminates the program, and when it
\* is reported to the caller the vector is fully k-d-sorted or as it was
\* before the call.
C8_SpawnFailureRecoverable ==
    /\ pc # "terminated"
    /\ pc = "error" => (seq = before \/ seq \in kd_sort(before, 0, 0, Len(before)))

\* C9 as stated: with max_threads >= 1 there are never more than max_threads
\* live tasks.
C9_LiveTasksAtMostMaxThreads ==
    maxThreads >= 1 => Cardinality(LiveTasks) <= maxThreads

\* the least power of two that is >= m, for m >= 1
RECURSIVE CeilPow2From(_, _)
CeilPow2From(p, m) == IF p >= m THEN p ELSE CeilPow2From(2 * p, m)
CeilPow2(m) == CeilPow2From(1, m)

\* C9 amended: with max_threads >= 1 there are never more live tasks than the
\* least power of two that is >= max_threads.
C9_LiveTasksAtMostCeilPow2 ==
    maxThreads >= 1 => Cardinality(LiveTasks) <= CeilPow2(maxThreads)

\* with a budget that is no power of two more tasks are live than the budget
C9_Witness ==
    /\ maxThreads >= 1
    /\ Cardinality(LiveTasks) > maxThreads
    /\ Cardinality(LiveTasks) = CeilPow2(maxThreads)

=============================================================================
